---- MODULE Spec2Model ----
(***************************************************************************)
(* jotview: the terminal ticket list of src/src/main.rs.                   *)
(*                                                                         *)
(* The program is one async main(): it fetches the ticket list, sorts it,  *)
(* selects the first ticket and then loops: draw, block on the next        *)
(* terminal event, handle the key.  The 'e' key changes the status of the  *)
(* selected ticket, awaits the backend's answer, sorts again.              *)
(*                                                                         *)
(* A ticket is the part of struct Jotform the program reads or writes:     *)
(* id, status and created_at.date.  A date string "YYYY-MM-DD" is the      *)
(* triple <<Y, M, D>> of the numbers it spells; parsing it is the calendar *)
(* check chrono makes.  Ticket ids are distinct within one fetched list    *)
(* (the backend's contract, spec section 3).                               *)
(***************************************************************************)
EXTENDS Integers, Sequences, FiniteSets, TLC

VARIABLES
    pc,                  \* where main() is: "start", "loop", "await", "exited", "failed", "panicked"
    jotforms,            \* Vec<Jotform>
    selected_id,         \* String
    description_offset,  \* u16
    key,                 \* history: the key code of the event most recently read ("none" before the first)
    acted,               \* history: whether that key's arm ran its assignment (Up, Down: the
                         \* selection moved; 'e': a ticket was found; PageUp, PageDown: always)
    inflight,            \* the update_status requests sent and not yet answered
    streak,              \* history: the statuses the selected ticket had before each of the
                         \* latest consecutive 'e' presses (at most CycleLen of them)
    answer,              \* history: how the latest call of the backend ended, until the next
                         \* key is read: "none", "fetch failed", "2xx", "non2xx", "send failed"
    sorting,             \* history: the Vec that sort_by was given when its closure panicked
    cmps,                \* the answers of the sort closure on the pairs of tickets of a list
    remote,              \* the backend's status of every ticket it served
    refused              \* history: whether an update request got no 2xx answer

vars == <<pc, jotforms, selected_id, description_offset, key, acted, inflight, streak,
          answer, sorting, cmps, remote, refused>>

----------------------------------------------------------------------------
(* Bounds of the model *)

MaxTickets == 3
MaxOffset == 2
ScrollTickets == 2
BackendTickets == 2

(* Program constants *)

U16Max == 65535

----------------------------------------------------------------------------
(* The inputs *)

AllIds == <<"A", "B", "C", "D", "E">>

KnownStatuses == {"Open", "InProgress", "Closed", "Unplanned"}

\* The length of the status cycle of the 'e' arm.
CycleLen == Cardinality(KnownStatuses)

\* "Archived" stands for every status string the program does not recognize.
Statuses == KnownStatuses \cup {"Archived"}

\* 2024-01-01, 2024-01-05, 2024-06-01, and 2024-13-01, which is no calendar date.
Dates == {<<2024, 1, 1>>, <<2024, 1, 5>>, <<2024, 6, 1>>, <<2024, 13, 1>>}

\* The lists GET /jotforms can answer with: n tickets, the ids in a fixed order
\* (they are opaque, only their equality is read), of statuses st and dates dt.
FetchedLengths == 0..MaxTickets

Fetched(n, st, dt) == [i \in 1..n |-> [id |-> AllIds[i], status |-> st[i], date |-> dt[i]]]

----------------------------------------------------------------------------
(* NaiveDate::parse_from_str(s, "%Y-%m-%d") and NaiveDate's Ord *)

IsLeap(y) == (y % 4 = 0 /\ y % 100 # 0) \/ y % 400 = 0

DaysInMonth(y, m) ==
    IF m = 2 THEN (IF IsLeap(y) THEN 29 ELSE 28)
    ELSE IF m \in {4, 6, 9, 11} THEN 30 ELSE 31

\* Ok(_) or Err(_) of the parse.
Parses(d) == d[2] \in 1..12 /\ d[3] >= 1 /\ d[3] <= DaysInMonth(d[1], d[2])

RECURSIVE DaysBefore(_, _)
DaysBefore(y, m) == IF m = 1 THEN 0 ELSE DaysBefore(y, m - 1) + DaysInMonth(y, m - 1)

\* A parsed NaiveDate: the year and the day of the year.
ParseDate(d) == <<d[1], DaysBefore(d[1], d[2]) + d[3]>>

\* x.cmp(&y) of two parsed dates.
DateCmp(x, y) ==
    IF x[1] < y[1] \/ (x[1] = y[1] /\ x[2] < y[2]) THEN "Less"
    ELSE IF x = y THEN "Equal" ELSE "Greater"

----------------------------------------------------------------------------
(* The closure given to sort_by *)

\* Mutant: the two Unplanned arms are missing.
StatusOrderNoUnplanned(a, b) ==
    IF a.status = "InProgress" THEN "Less"
    ELSE IF b.status = "InProgress" THEN "Greater"
    ELSE "Equal"

StatusOrder(a, b) ==
    IF a.status = "InProgress" THEN "Less"
    ELSE IF b.status = "InProgress" THEN "Greater"
    ELSE IF a.status = "Unplanned" THEN "Greater"
    ELSE IF b.status = "Unplanned" THEN "Less"
    ELSE "Equal"

\* "Less", "Equal", "Greater", or "Panic" when an unwrap() of a date parse fails.
Compare(a, b) ==
    IF StatusOrder(a, b) = "Equal"
    THEN IF ~Parses(a.date) \/ ~Parses(b.date) THEN "Panic"
         ELSE DateCmp(ParseDate(b.date), ParseDate(a.date))
    ELSE StatusOrder(a, b)

----------------------------------------------------------------------------
(* slice::sort_by on a slice of at most 20 elements: the standard library  *)
(* inserts v[tail] into the sorted v[..tail], for tail = 1, 2, ..., moving *)
(* it left while compare(v[tail], v[sift]) is Less.  A panic of the        *)
(* closure ends the sort.                                                  *)

Front(s) == SubSeq(s, 1, Len(s) - 1)
Last(s) == s[Len(s)]

Sorted(v) == [panic |-> FALSE, v |-> v]
Panicked == [panic |-> TRUE, v |-> <<>>]

\* x inserted from the right end into s.
RECURSIVE InsertTail(_, _)
InsertTail(s, x) ==
    IF s = <<>> THEN Sorted(<<x>>)
    ELSE LET c == Compare(x, Last(s)) IN
         IF c = "Panic" THEN Panicked
         ELSE IF c = "Less"
              THEN LET r == InsertTail(Front(s), x) IN
                   IF r.panic THEN Panicked ELSE Sorted(Append(r.v, Last(s)))
              ELSE Sorted(Append(s, x))

RECURSIVE SortPrefix(_, _)
SortPrefix(v, n) ==
    IF n <= 1 THEN Sorted(SubSeq(v, 1, n))
    ELSE LET r == SortPrefix(v, n - 1) IN
         IF r.panic THEN Panicked ELSE InsertTail(r.v, v[n])

\* Mutant: the last element is left out.
SortByShort(v) == SortPrefix(v, Len(v) - 1)

SortBy(v) == SortPrefix(v, Len(v))

----------------------------------------------------------------------------
(* Helpers of the event loop *)

\* Mutant: position(..).unwrap_or(0), the first ticket standing for a missing one.
PositionOrFirst(js, id) ==
    IF \E i \in 1..Len(js) : js[i].id = id
    THEN CHOOSE i \in 1..Len(js) :
            js[i].id = id /\ \A k \in 1..(i - 1) : js[k].id # id
    ELSE IF Len(js) > 0 THEN 1 ELSE 0

\* jotforms.iter().position(|j| j.id == id): the first index (from 1), 0 for None.
Position(js, id) ==
    IF \E i \in 1..Len(js) : js[i].id = id
    THEN CHOOSE i \in 1..Len(js) :
            js[i].id = id /\ \A k \in 1..(i - 1) : js[k].id # id
    ELSE 0

\* Mutant: the selection starts as String::default().
FirstIdDefault(js) == ""

\* jotforms.get(0).map(|j| j.id.clone()).unwrap_or_default()
FirstId(js) == IF Len(js) > 0 THEN js[1].id ELSE ""

\* Mutant: "Closed" goes back to "Open".
NextStatusSkips(s) ==
    CASE s = "Open" -> "InProgress"
      [] s = "InProgress" -> "Closed"
      [] s = "Closed" -> "Open"
      [] s = "Unplanned" -> "Open"
      [] OTHER -> "Open"

\* Mutant: "Unplanned" is terminal.
NextStatusEnds(s) ==
    CASE s = "Open" -> "InProgress"
      [] s = "InProgress" -> "Closed"
      [] s = "Closed" -> "Unplanned"
      [] OTHER -> s

\* The match of the 'e' arm on the selected ticket's status.
NextStatus(s) ==
    CASE s = "Open" -> "InProgress"
      [] s = "InProgress" -> "Closed"
      [] s = "Closed" -> "Unplanned"
      [] s = "Unplanned" -> "Open"
      [] OTHER -> "Open"

\* The two ifs of the Up arm: Some(current_index) and current_index > 0.
UpMoves(js, sel) == Position(js, sel) > 1

\* The two ifs of the Down arm: Some(current_index) and current_index < len - 1.
DownMoves(js, sel) == Position(js, sel) >= 1 /\ Position(js, sel) < Len(js)

\* Mutant: Up at the first ticket wraps around to the last.
UpSelectionWraps(js, sel) ==
    IF Position(js, sel) > 1 THEN js[Position(js, sel) - 1].id
    ELSE IF Position(js, sel) = 1 THEN js[Len(js)].id ELSE sel

\* Mutant: Down moves to the last ticket.
DownSelectionJumps(js, sel) == IF DownMoves(js, sel) THEN js[Len(js)].id ELSE sel

\* selected_id after the Up arm and after the Down arm.
UpSelection(js, sel) == IF UpMoves(js, sel) THEN js[Position(js, sel) - 1].id ELSE sel
DownSelection(js, sel) == IF DownMoves(js, sel) THEN js[Position(js, sel) + 1].id ELSE sel

\* Mutant: the reset is missing.
MovedOffsetKept(moves, off) == off

\* description_offset after an Up or Down arm: reset where the selection is assigned.
MovedOffset(moves, off) == IF moves THEN 0 ELSE off

\* Mutant: the selection keeps its row, not its ticket.
ReselectFirst(js, sel) == IF Len(js) > 0 THEN js[1].id ELSE sel

\* The selection after the 'e' arm's sort: the id at the position of selected_id.
Reselect(js, sel) ==
    LET i == Position(js, sel) IN
    IF i >= 1 THEN js[i].id ELSE sel

\* u16::saturating_sub(1) and u16::saturating_add(1)
SaturatingSub1(n) == IF n = 0 THEN 0 ELSE n - 1

\* Mutant: u16::wrapping_add(1).
WrappingAdd1(n) == (n + 1) % (U16Max + 1)

SaturatingAdd1(n) == IF n >= U16Max THEN U16Max ELSE n + 1

\* The history of consecutive 'e' presses, one more press on a ticket of status s.
Pressed(h, s) ==
    LET all == Append(h, s) IN
    IF Len(all) > CycleLen THEN SubSeq(all, 2, Len(all)) ELSE all

----------------------------------------------------------------------------
(* The state before main() fetches *)

Init ==
    /\ pc = "start"
    /\ jotforms = <<>>
    /\ selected_id = ""
    /\ description_offset = 0
    /\ key = "none"
    /\ acted = FALSE
    /\ inflight = <<>>
    /\ streak = <<>>
    /\ answer = "none"
    /\ sorting = <<>>
    /\ cmps = <<>>
    /\ remote = <<>>
    /\ refused = FALSE

(* The process has ended: its memory is gone. *)
Dropped ==
    /\ jotforms' = <<>>
    /\ selected_id' = ""
    /\ description_offset' = 0
    /\ key' = "none"
    /\ acted' = FALSE
    /\ inflight' = <<>>
    /\ streak' = <<>>

(* main() from the answer of GET /jotforms to the loop: sort, select the first
   ticket. *)
Load(fetched) ==
    LET r == SortBy(fetched) IN
    IF r.panic
    THEN /\ pc' = "panicked"
         /\ Dropped
         /\ sorting' = fetched
         /\ UNCHANGED answer
    ELSE /\ pc' = "loop"
         /\ jotforms' = r.v
         /\ selected_id' = FirstId(r.v)
         /\ description_offset' = 0
         /\ UNCHANGED <<key, acted, inflight, streak, answer, sorting>>

(* main() up to the loop: fetch, sort, select the first ticket. *)
Startup ==
    /\ pc = "start"
    /\ \E n \in FetchedLengths : \E st \in [1..n -> Statuses], dt \in [1..n -> Dates] :
          Load(Fetched(n, st, dt))
    /\ UNCHANGED <<cmps, remote, refused>>

(* Mutant: the failed fetch counts as an empty list (unwrap_or_default). *)
StartupFailsGoesOn ==
    /\ pc = "start"
    /\ pc' = "loop"
    /\ answer' = "fetch failed"
    /\ Dropped
    /\ UNCHANGED <<sorting, cmps, remote, refused>>

(* fetch_jotforms() returns Err (the request or the decoding of its answer
   failed): main() returns it. *)
StartupFails ==
    /\ pc = "start"
    /\ pc' = "failed"
    /\ answer' = "fetch failed"
    /\ Dropped
    /\ UNCHANGED <<sorting, cmps, remote, refused>>

(* #[tokio::main] builds the runtime before the body of main() runs and panics
   (its expect()) when the build fails: nothing is set up, fetched or drawn. *)
RuntimePanics ==
    /\ pc = "start"
    /\ pc' = "panicked"
    /\ Dropped
    /\ UNCHANGED <<answer, sorting, cmps, remote, refused>>

(* enable_raw_mode(), execute!(stdout, EnterAlternateScreen) or Terminal::new()
   returns Err: main() returns it before any request is sent. *)
SetupFails ==
    /\ pc = "start"
    /\ pc' = "failed"
    /\ answer' = "none"
    /\ Dropped
    /\ UNCHANGED <<sorting, cmps, remote, refused>>

(* terminal.draw() or event::read() returns Err inside the loop. *)
TerminalFails ==
    /\ pc = "loop"
    /\ pc' = "failed"
    /\ answer' = "none"
    /\ Dropped
    /\ UNCHANGED <<sorting, cmps, remote, refused>>

(* KeyCode::Char('q') => break *)
KeyQuit ==
    /\ pc = "loop"
    /\ pc' = "exited"
    /\ answer' = "none"
    /\ Dropped
    /\ UNCHANGED <<sorting, cmps, remote, refused>>

(* KeyCode::Up *)
KeyUp ==
    /\ pc = "loop"
    /\ key' = "Up"
    /\ acted' = UpMoves(jotforms, selected_id)
    /\ selected_id' = UpSelection(jotforms, selected_id)
    /\ description_offset' = MovedOffset(UpMoves(jotforms, selected_id), description_offset)
    /\ streak' = <<>>
    /\ answer' = "none"
    /\ UNCHANGED <<pc, jotforms, inflight, sorting, cmps, remote, refused>>

(* KeyCode::Down *)
KeyDown ==
    /\ pc = "loop"
    /\ key' = "Down"
    /\ acted' = DownMoves(jotforms, selected_id)
    /\ selected_id' = DownSelection(jotforms, selected_id)
    /\ description_offset' = MovedOffset(DownMoves(jotforms, selected_id), description_offset)
    /\ streak' = <<>>
    /\ answer' = "none"
    /\ UNCHANGED <<pc, jotforms, inflight, sorting, cmps, remote, refused>>

(* Mutant: the request carries the status the ticket had before the press. *)
KeyESendsOld ==
    /\ pc = "loop"
    /\ key' = "e"
    /\ acted' = (Position(jotforms, selected_id) # 0)
    /\ LET i == Position(jotforms, selected_id) IN
       IF i = 0
       THEN UNCHANGED <<pc, jotforms, inflight>> /\ streak' = <<>>
       ELSE LET new == NextStatus(jotforms[i].status) IN
            /\ jotforms' = [jotforms EXCEPT ![i].status = new]
            /\ inflight' = Append(inflight, [id |-> jotforms[i].id,
                                             new_status |-> jotforms[i].status])
            /\ streak' = Pressed(streak, jotforms[i].status)
            /\ pc' = "await"
    /\ answer' = "none"
    /\ UNCHANGED <<selected_id, description_offset, sorting, cmps, remote, refused>>

(* Mutant: the request is sent from a spawned task, the loop goes on without
   its answer. *)
KeyESpawns ==
    /\ pc = "loop"
    /\ key' = "e"
    /\ acted' = (Position(jotforms, selected_id) # 0)
    /\ LET i == Position(jotforms, selected_id) IN
       IF i = 0
       THEN UNCHANGED <<pc, jotforms, inflight>> /\ streak' = <<>>
       ELSE LET new == NextStatus(jotforms[i].status) IN
            /\ jotforms' = [jotforms EXCEPT ![i].status = new]
            /\ inflight' = Append(inflight, [id |-> jotforms[i].id, new_status |-> new])
            /\ streak' = Pressed(streak, jotforms[i].status)
            /\ pc' = "loop"
    /\ answer' = "none"
    /\ UNCHANGED <<selected_id, description_offset, sorting, cmps, remote, refused>>

(* Mutant: the request is sent with the next status, the ticket changed only
   afterwards. *)
KeyESendsFirst ==
    /\ pc = "loop"
    /\ key' = "e"
    /\ acted' = (Position(jotforms, selected_id) # 0)
    /\ LET i == Position(jotforms, selected_id) IN
       IF i = 0
       THEN UNCHANGED <<pc, jotforms, inflight>> /\ streak' = <<>>
       ELSE LET new == NextStatus(jotforms[i].status) IN
            /\ jotforms' = jotforms
            /\ inflight' = Append(inflight, [id |-> jotforms[i].id, new_status |-> new])
            /\ streak' = Pressed(streak, jotforms[i].status)
            /\ pc' = "await"
    /\ answer' = "none"
    /\ UNCHANGED <<selected_id, description_offset, sorting, cmps, remote, refused>>

(* Mutant: the list is sorted before the request is sent. *)
KeyESortsFirst ==
    /\ pc = "loop"
    /\ key' = "e"
    /\ acted' = (Position(jotforms, selected_id) # 0)
    /\ LET i == Position(jotforms, selected_id) IN
       IF i = 0
       THEN UNCHANGED <<pc, jotforms, inflight>> /\ streak' = <<>>
       ELSE LET new == NextStatus(jotforms[i].status)
                changed == [jotforms EXCEPT ![i].status = new]
                r == SortBy(changed)
            IN  /\ jotforms' = IF r.panic THEN changed ELSE r.v
                /\ inflight' = Append(inflight, [id |-> jotforms[i].id, new_status |-> new])
                /\ streak' = Pressed(streak, jotforms[i].status)
                /\ pc' = "await"
    /\ answer' = "none"
    /\ UNCHANGED <<selected_id, description_offset, sorting, cmps, remote, refused>>

(* Mutant: the arm scrolls the pane back to the top. *)
KeyEResetsOffset ==
    /\ pc = "loop"
    /\ key' = "e"
    /\ acted' = (Position(jotforms, selected_id) # 0)
    /\ LET i == Position(jotforms, selected_id) IN
       IF i = 0
       THEN UNCHANGED <<pc, jotforms, inflight>> /\ streak' = <<>>
       ELSE LET new == NextStatus(jotforms[i].status) IN
            /\ jotforms' = [jotforms EXCEPT ![i].status = new]
            /\ inflight' = Append(inflight, [id |-> jotforms[i].id, new_status |-> new])
            /\ streak' = Pressed(streak, jotforms[i].status)
            /\ pc' = "await"
    /\ answer' = "none"
    /\ description_offset' = 0
    /\ UNCHANGED <<selected_id, sorting, cmps, remote, refused>>

(* KeyCode::Char('e'), up to the await of update_status(): the status of the
   selected ticket is changed in place and the request is sent. *)
KeyE ==
    /\ pc = "loop"
    /\ key' = "e"
    /\ acted' = (Position(jotforms, selected_id) # 0)
    /\ LET i == Position(jotforms, selected_id) IN
       IF i = 0
       THEN UNCHANGED <<pc, jotforms, inflight>> /\ streak' = <<>>
       ELSE LET new == NextStatus(jotforms[i].status) IN
            /\ jotforms' = [jotforms EXCEPT ![i].status = new]
            /\ inflight' = Append(inflight, [id |-> jotforms[i].id, new_status |-> new])
            /\ streak' = Pressed(streak, jotforms[i].status)
            /\ pc' = "await"
    /\ answer' = "none"
    /\ UNCHANGED <<selected_id, description_offset, sorting, cmps, remote, refused>>

(* The 'e' arm from the return of update_status(), which is Ok(()) after a 2xx
   answer (success) and after a non-2xx answer that eprintln! could write to
   stderr: the arm sorts and looks the selection up. *)
Answered(success) ==
    /\ answer' = IF success THEN "2xx" ELSE "non2xx"
    /\ LET r == SortBy(jotforms) IN
       IF r.panic
       THEN /\ pc' = "panicked"
            /\ Dropped
            /\ sorting' = jotforms
       ELSE /\ pc' = "loop"
            /\ jotforms' = r.v
            /\ selected_id' = Reselect(r.v, selected_id)
            /\ inflight' = <<>>
            /\ UNCHANGED <<description_offset, key, acted, streak, sorting>>

(* The backend answers the request of the 'e' press. *)
UpdateAnswered ==
    /\ pc = "await"
    /\ \E success \in BOOLEAN : Answered(success)
    /\ UNCHANGED <<cmps, remote, refused>>

(* The answer is non-2xx and stderr cannot be written: eprintln! panics in
   update_status(), which never returns; no sort runs. *)
UpdatePanics ==
    /\ pc = "await"
    /\ pc' = "panicked"
    /\ answer' = "non2xx"
    /\ Dropped
    /\ UNCHANGED <<sorting, cmps, remote, refused>>

(* send() returns Err: update_status() and then main() return it. *)
UpdateFails ==
    /\ pc = "await"
    /\ pc' = "failed"
    /\ answer' = "send failed"
    /\ Dropped
    /\ UNCHANGED <<sorting, cmps, remote, refused>>

(* KeyCode::PageUp *)
KeyPageUp ==
    /\ pc = "loop"
    /\ key' = "PageUp"
    /\ acted' = TRUE
    /\ description_offset' = SaturatingSub1(description_offset)
    /\ streak' = <<>>
    /\ answer' = "none"
    /\ UNCHANGED <<pc, jotforms, selected_id, inflight, sorting, cmps, remote, refused>>

(* The arm of KeyCode::PageDown *)
PageDownArm ==
    /\ key' = "PageDown"
    /\ acted' = TRUE
    /\ description_offset' = SaturatingAdd1(description_offset)
    /\ streak' = <<>>
    /\ answer' = "none"
    /\ UNCHANGED <<pc, jotforms, selected_id, inflight, sorting, cmps, remote, refused>>

(* KeyCode::PageDown; the model stops pressing it at MaxOffset. *)
KeyPageDown ==
    /\ pc = "loop"
    /\ description_offset < MaxOffset
    /\ PageDownArm

(* Any other key code (_ => {}), or an event that is no key: no arm runs. *)
KeyOther ==
    /\ pc = "loop"
    /\ key' = "other"
    /\ acted' = FALSE
    /\ streak' = <<>>
    /\ answer' = "none"
    /\ UNCHANGED <<pc, jotforms, selected_id, description_offset, inflight, sorting, cmps, remote, refused>>

Next ==
    \/ RuntimePanics
    \/ Startup
    \/ StartupFails
    \/ SetupFails
    \/ TerminalFails
    \/ KeyQuit
    \/ KeyUp
    \/ KeyDown
    \/ KeyE
    \/ UpdateAnswered
    \/ UpdatePanics
    \/ UpdateFails
    \/ KeyPageUp
    \/ KeyPageDown
    \/ KeyOther

Spec == Init /\ [][Next]_vars

----------------------------------------------------------------------------
(* The scroll offset over its whole range *)

(* Startup, the backend answering with at most ScrollTickets tickets, all Open
   and of one date. *)
StartupScroll ==
    /\ pc = "start"
    /\ \E n \in 0..ScrollTickets :
          Load(Fetched(n, [i \in 1..n |-> "Open"], [i \in 1..n |-> <<2024, 1, 1>>]))
    /\ UNCHANGED <<cmps, remote, refused>>

(* KeyCode::PageDown, at every offset. *)
KeyPageDownUncapped ==
    /\ pc = "loop"
    /\ PageDownArm

NextScroll ==
    \/ StartupScroll
    \/ KeyUp
    \/ KeyDown
    \/ KeyPageUp
    \/ KeyPageDownUncapped

\* The session in which only the arrow and page keys are pressed.
SpecScroll == Init /\ [][NextScroll]_vars

----------------------------------------------------------------------------
(* The program of src/press.output/.rollback/main.rs: the same loop and the same
   arms as methods of struct App, started another way. *)

\* The lists GET /jotforms can answer this program with: an id is any String,
\* the empty one too, which ticket e has (no ticket when e = 0).
FetchedRollback(n, st, dt, e) ==
    [i \in 1..n |-> [id |-> IF i = e THEN "" ELSE AllIds[i], status |-> st[i], date |-> dt[i]]]

(* main() and App::run() up to the loop: the fetched list replaces the empty Vec
   of App::default() as it came, selected_id stays String::default(). *)
StartupRollback ==
    /\ pc = "start"
    /\ \E n \in FetchedLengths : \E st \in [1..n -> Statuses], dt \in [1..n -> Dates], e \in 0..n :
          /\ pc' = "loop"
          /\ jotforms' = FetchedRollback(n, st, dt, e)
          /\ selected_id' = ""
          /\ description_offset' = 0
          /\ UNCHANGED <<key, acted, inflight, streak, answer, sorting, cmps, remote, refused>>

(* ratatui::init() panics (its expect()) when the terminal cannot be set up; the
   list is fetched by then. *)
InitPanics ==
    /\ pc = "start"
    /\ pc' = "panicked"
    /\ Dropped
    /\ UNCHANGED <<answer, sorting, cmps, remote, refused>>

NextRollback ==
    \/ StartupRollback
    \/ StartupFails
    \/ InitPanics
    \/ TerminalFails
    \/ KeyQuit
    \/ KeyUp
    \/ KeyDown
    \/ KeyE
    \/ UpdateAnswered
    \/ UpdatePanics
    \/ UpdateFails
    \/ KeyPageUp
    \/ KeyPageDown
    \/ KeyOther

SpecRollback == Init /\ [][NextRollback]_vars

----------------------------------------------------------------------------
(* The session together with the backend: it keeps the statuses it served in
   GET /jotforms and applies the update requests it answers with 2xx. *)

\* The status of every ticket of the list the backend serves.
Served(js) ==
    [id \in {js[i].id : i \in 1..Len(js)} |-> js[Position(js, id)].status]

(* Startup, the backend answering with at most BackendTickets tickets. *)
StartupBackend ==
    /\ pc = "start"
    /\ \E n \in 0..BackendTickets : \E st \in [1..n -> Statuses], dt \in [1..n -> Dates] :
          /\ Load(Fetched(n, st, dt))
          /\ remote' = Served(Fetched(n, st, dt))
    /\ UNCHANGED <<cmps, refused>>

\* The backend's statuses once the request that is out, POST /jotforms/{id}/status
\* with {"new_status": status}, is applied.
Applied == [remote EXCEPT ![inflight[1].id] = inflight[1].new_status]

(* The backend answers the request of the 'e' press: with 2xx, having applied
   it, or with another status, having applied nothing. *)
UpdateAnsweredBackend ==
    /\ pc = "await"
    /\ \E success \in BOOLEAN :
          /\ Answered(success)
          /\ remote' = IF success THEN Applied ELSE remote
          /\ refused' = (refused \/ ~success)
    /\ UNCHANGED cmps

(* The backend answers with a non-2xx status, having applied nothing, and
   eprintln! panics on a stderr that cannot be written. *)
UpdatePanicsBackend ==
    /\ pc = "await"
    /\ pc' = "panicked"
    /\ answer' = "non2xx"
    /\ Dropped
    /\ refused' = TRUE
    /\ UNCHANGED <<sorting, cmps, remote>>

(* send() returns Err, the request having reached the backend or not. *)
UpdateFailsBackend ==
    /\ pc = "await"
    /\ pc' = "failed"
    /\ answer' = "send failed"
    /\ Dropped
    /\ remote' \in {remote, Applied}
    /\ refused' = TRUE
    /\ UNCHANGED <<sorting, cmps>>

NextBackend ==
    \/ StartupBackend
    \/ KeyUp
    \/ KeyDown
    \/ KeyE
    \/ UpdateAnsweredBackend
    \/ UpdatePanicsBackend
    \/ UpdateFailsBackend

SpecBackend == Init /\ [][NextBackend]_vars

----------------------------------------------------------------------------
(* The ordering by itself: the closure and sort_by applied to a list *)

(* A list of up to MaxTickets tickets, as GET /jotforms can answer with. *)
InitPolicy ==
    /\ pc = "policy"
    /\ \E n \in FetchedLengths : \E st \in [1..n -> Statuses], dt \in [1..n -> Dates] :
          jotforms = Fetched(n, st, dt)
    /\ selected_id = ""
    /\ description_offset = 0
    /\ key = "none"
    /\ acted = FALSE
    /\ inflight = <<>>
    /\ streak = <<>>
    /\ answer = "none"
    /\ sorting = <<>>
    /\ cmps = <<>>
    /\ remote = <<>>
    /\ refused = FALSE

(* The closure is called on every pair (a, b) of tickets of the list. *)
CompareAll ==
    /\ pc \in {"policy", "sorted"}
    /\ cmps' = [i \in 1..Len(jotforms) |->
                  [j \in 1..Len(jotforms) |-> Compare(jotforms[i], jotforms[j])]]
    /\ UNCHANGED <<pc, jotforms, selected_id, description_offset, key, acted, inflight,
                   streak, answer, sorting, remote, refused>>

(* jotforms.sort_by(..) is called on the list, sorted before or not. *)
SortAgain ==
    /\ pc \in {"policy", "sorted"}
    /\ LET r == SortBy(jotforms) IN
       IF r.panic
       THEN /\ pc' = "panicked"
            /\ sorting' = jotforms
            /\ UNCHANGED jotforms
       ELSE /\ pc' = "sorted"
            /\ jotforms' = r.v
            /\ UNCHANGED sorting
    /\ cmps' = <<>>
    /\ UNCHANGED <<selected_id, description_offset, key, acted, inflight, streak, answer,
                   remote, refused>>

NextPolicy ==
    \/ CompareAll
    \/ SortAgain

SpecPolicy == InitPolicy /\ [][NextPolicy]_vars

----------------------------------------------------------------------------
(* Vocabulary of the properties: the words of the specification, not of the code *)

Ids(js) == {js[i].id : i \in 1..Len(js)}

\* The ticket selected_id names.
Selected == jotforms[Position(jotforms, selected_id)]

\* The status buckets of the Ordering Policy (spec 4.1): InProgress, the middle, Unplanned.
Bucket(t) ==
    IF t.status = "InProgress" THEN 1 ELSE IF t.status = "Unplanned" THEN 3 ELSE 2

AllParse(js) == \A i \in 1..Len(js) : Parses(js[i].date)

\* Within every bucket the dates do not increase.
DatesDescend(js) ==
    \A i, j \in 1..Len(js) :
        (i < j /\ Bucket(js[i]) = Bucket(js[j]) /\ Parses(js[i].date) /\ Parses(js[j].date))
            => DateCmp(ParseDate(js[i].date), ParseDate(js[j].date)) # "Less"

\* InProgress before Open and Closed, Open and Closed before Unplanned.
BucketsInOrder(js) ==
    \A i, j \in 1..Len(js) :
        (js[i].status \in KnownStatuses /\ js[j].status \in KnownStatuses /\ i < j)
            => /\ ~(js[j].status = "InProgress" /\ js[i].status \in {"Open", "Closed"})
               /\ ~(js[j].status \in {"Open", "Closed"} /\ js[i].status = "Unplanned")

\* The ids of the list in its order.
IdOrder(js) == [i \in 1..Len(js) |-> js[i].id]

\* The ids of the list in its order, the ticket of the given id left out.
Others(js, id) ==
    LET NotIt(x) == x # id IN SelectSeq(IdOrder(js), NotIt)

\* The answer of a comparison with its arguments exchanged.
Reverse(c) == IF c = "Less" THEN "Greater" ELSE IF c = "Greater" THEN "Less" ELSE c

\* The status cycle as the spec writes it (4.3).
CycleNext(s) ==
    IF s = "Open" THEN "InProgress"
    ELSE IF s = "InProgress" THEN "Closed"
    ELSE IF s = "Closed" THEN "Unplanned"
    ELSE "Open"

----------------------------------------------------------------------------
(* C1: whenever the ticket list is non-empty, selected_id is the id of a ticket
   of the list; whenever it is empty, selected_id is the empty string. *)
C1_SelectionNeverDangles ==
    /\ Len(jotforms) > 0 => selected_id \in Ids(jotforms)
    /\ Len(jotforms) = 0 => selected_id = ""

\* Reached: an 'e' press has sorted the selected ticket to the end of a 3-ticket list.
C1_Witness ==
    /\ pc = "loop" /\ key = "e" /\ acted
    /\ Len(jotforms) = 3 /\ selected_id = jotforms[3].id

(* C2: in every state that is drawn, among the tickets of a known status every
   InProgress ticket is before every Open or Closed one, and every Open or Closed
   ticket is before every Unplanned one. *)
C2_BucketsInOrder == pc = "loop" => BucketsInOrder(jotforms)

\* Reached: after an 'e' press the list holds a ticket of each bucket.
C2_Witness ==
    /\ pc = "loop" /\ key = "e" /\ acted /\ Len(jotforms) = 3
    /\ jotforms[1].status = "InProgress"
    /\ jotforms[2].status \in {"Open", "Closed"}
    /\ jotforms[3].status = "Unplanned"

(* C3, as claimed: in every state that is drawn, within each bucket the tickets
   are in non-increasing date order. *)
C3_DatesDescendInBuckets == pc = "loop" => DatesDescend(jotforms)

(* C4: an 'e' press leaves selected_id what it was, from the press to the end of
   the sort that follows the backend's answer: the same ticket stays selected. *)
C4_SelectionSurvivesStatusChange ==
    [][ /\ (pc = "loop" /\ pc' = "await") =>
              (inflight'[1].id = selected_id /\ selected_id' = selected_id)
        /\ (pc = "await" /\ pc' = "loop") =>
              (selected_id' = inflight[1].id /\ selected_id' \in Ids(jotforms')) ]_vars

\* Reached: the selected ticket, the most recent of three, was Closed before the Open
\* others and is Unplanned behind them after the press.
C4_Witness ==
    /\ pc = "loop" /\ key = "e" /\ acted /\ Len(jotforms) = 3
    /\ streak = <<"Closed">>
    /\ selected_id = jotforms[3].id
    /\ jotforms[3].status = "Unplanned" /\ jotforms[3].date = <<2024, 6, 1>>
    /\ jotforms[1].status = "Open" /\ jotforms[1].date = <<2024, 1, 5>>
    /\ jotforms[2].status = "Open" /\ jotforms[2].date = <<2024, 1, 1>>

(* C5, as claimed: at the first render of a list whose dates all parse, the list
   is ordered by the Ordering Policy (buckets in order, dates descending within a
   bucket), selected_id is the id of its first ticket (empty for the empty list)
   and the scroll offset is 0. *)
C5_StartupLoadsOrdered ==
    (pc = "loop" /\ key = "none" /\ AllParse(jotforms)) =>
        /\ BucketsInOrder(jotforms)
        /\ DatesDescend(jotforms)
        /\ selected_id = (IF Len(jotforms) = 0 THEN "" ELSE jotforms[1].id)
        /\ description_offset = 0

(* C6: the status of a ticket changes only in the 'e' press on it, and then from
   s to the next status of the cycle Open, InProgress, Closed, Unplanned, Open,
   every other status going to Open. *)
C6_StatusChangesByCycleOnly ==
    [][ /\ \A i \in 1..Len(jotforms) : \A j \in 1..Len(jotforms') :
              (jotforms[i].id = jotforms'[j].id /\ jotforms[i].status # jotforms'[j].status)
                  => (/\ pc = "loop" /\ key' = "e" /\ jotforms[i].id = selected_id
                      /\ jotforms'[j].status = CycleNext(jotforms[i].status))
        /\ (pc = "loop" /\ pc' = "await") =>
              (\E i \in 1..Len(jotforms) :
                  /\ jotforms[i].id = selected_id
                  /\ jotforms'[i].status = CycleNext(jotforms[i].status)) ]_vars

\* Reached: an 'e' press took a ticket of an unrecognized status to Open.
C6_Witness ==
    /\ pc = "loop" /\ key = "e" /\ acted
    /\ streak = <<"Archived">> /\ Selected.status = "Open"

(* C7: the fourth status after each of Open, InProgress, Closed, Unplanned is that
   status again, and after four consecutive completed 'e' presses the selected
   ticket has the status it had before the first of them. *)
C7_FourPressesReturn ==
    /\ \A s \in KnownStatuses : NextStatus(NextStatus(NextStatus(NextStatus(s)))) = s
    /\ (pc = "loop" /\ Len(streak) = 4 /\ streak[1] \in KnownStatuses)
          => Selected.status = streak[1]

\* Reached: four presses in a row on a ticket that was Closed, in a list of three.
C7_Witness ==
    /\ pc = "loop" /\ key = "e" /\ Len(jotforms) = 3
    /\ streak = <<"Closed", "Unplanned", "Open", "InProgress">>

(* C8: Up with the selected ticket first, and Down with it last, change neither
   selected_id nor the ticket list nor the scroll offset. *)
C8_NoMoveAtTheEnds ==
    [][ (/\ pc = "loop"
         /\ \/ key' = "Up" /\ Position(jotforms, selected_id) = 1
            \/ key' = "Down" /\ Position(jotforms, selected_id) = Len(jotforms)
                             /\ Len(jotforms) > 0)
        => UNCHANGED <<selected_id, jotforms, description_offset>> ]_vars

\* Reached: Up did not move on a scrolled ticket that is the first of three.
C8_Witness ==
    /\ pc = "loop" /\ key = "Up" /\ ~acted
    /\ Len(jotforms) = 3 /\ selected_id = jotforms[1].id /\ description_offset > 0

(* C9: Up with the selected ticket at index i > 0 selects the ticket at i - 1,
   Down with it at i < len - 1 selects the ticket at i + 1; neither changes the
   ticket list or sends a request to the backend. *)
C9_MoveSelectsNeighbour ==
    [][ pc = "loop" =>
        LET i == Position(jotforms, selected_id) IN
        /\ (key' = "Up" /\ i > 1) =>
              (/\ selected_id' = jotforms[i - 1].id
               /\ jotforms' = jotforms /\ inflight' = <<>> /\ pc' = "loop")
        /\ (key' = "Down" /\ i >= 1 /\ i < Len(jotforms)) =>
              (/\ selected_id' = jotforms[i + 1].id
               /\ jotforms' = jotforms /\ inflight' = <<>> /\ pc' = "loop") ]_vars

\* Reached: Down has moved the selection to the second of three tickets.
C9_Witness ==
    /\ pc = "loop" /\ key = "Down" /\ acted
    /\ Len(jotforms) = 3 /\ selected_id = jotforms[2].id

(* C10: every step of the running program that changes selected_id ends with the
   scroll offset 0. *)
C10_ScrollResetOnSelectionChange ==
    [][ (selected_id' # selected_id /\ pc' \in {"loop", "await"})
            => description_offset' = 0 ]_vars

\* Reached: Up has moved the selection and the offset is 0.
C10_Witness ==
    /\ pc = "loop" /\ key = "Up" /\ acted
    /\ Len(jotforms) = 3 /\ selected_id = jotforms[1].id /\ description_offset = 0

----------------------------------------------------------------------------
\* C11, as claimed: PageDown adds one to the scroll offset at every offset.
C11_PageDownAlwaysAddsOne ==
    [][ (pc = "loop" /\ key' = "PageDown") => description_offset' = description_offset + 1 ]_vars

\* C11: PageDown adds one to the scroll offset n below 65535 and leaves 65535 as
\* it is; PageUp takes one off n > 0 and leaves 0 as it is; the offset is never
\* negative; neither key changes the selection or the list.
C11_ScrollArithmetic ==
    [][ /\ description_offset' \in 0..U16Max
        /\ (pc = "loop" /\ key' = "PageDown") =>
               (/\ description_offset < U16Max => description_offset' = description_offset + 1
                /\ description_offset = U16Max => description_offset' = U16Max
                /\ UNCHANGED <<selected_id, jotforms>>)
        /\ (pc = "loop" /\ key' = "PageUp") =>
               (/\ description_offset > 0 => description_offset' = description_offset - 1
                /\ description_offset = 0 => description_offset' = 0
                /\ UNCHANGED <<selected_id, jotforms>>) ]_vars

\* PageDown was pressed at offset 65535, two tickets in the list.
C11_Witness ==
    /\ pc = "loop"
    /\ key = "PageDown"
    /\ description_offset = U16Max
    /\ Len(jotforms) = 2

----------------------------------------------------------------------------
\* C12, as claimed: after a non-2xx answer to the request of an 'e' press the
\* session is in the loop, the pressed ticket is still selected and has the next
\* status of the cycle, and the list is in the order of the buckets.
C12_Non2xxKeepsTheChange ==
    answer = "non2xx" =>
        /\ pc = "loop"
        /\ selected_id \in Ids(jotforms)
        /\ Selected.status = CycleNext(Last(streak))
        /\ BucketsInOrder(jotforms)

----------------------------------------------------------------------------
\* C13, as claimed: after a backend call of an 'e' press that failed, by a non-2xx
\* answer or by a failure of the transport, the session is in the loop.
C13_FailedUpdateIsNotFatal ==
    answer \in {"non2xx", "send failed"} => pc = "loop"

----------------------------------------------------------------------------
\* C14, as claimed: no sort ends the session, whatever the dates of the tickets
\* (sorting is the list a sort was given when its closure panicked).
C14_SortNeverCrashes == ~(pc = "panicked" /\ sorting # <<>>)

----------------------------------------------------------------------------
\* C15: the step in which the startup fetch fails ends the program with the error
\* before any key is handled, and no step follows it: the loop is never entered.
C15_FetchFailureIsFatal ==
    [][ /\ answer # "fetch failed"
        /\ answer' = "fetch failed" =>
               (pc = "start" /\ pc' = "failed" /\ key' = "none" /\ jotforms' = <<>>) ]_vars

\* The startup fetch has failed.
C15_Witness == pc = "failed" /\ answer = "fetch failed"

----------------------------------------------------------------------------
\* C16: where selected_id names no ticket of the list, the keys 'e', Up and Down
\* change neither the list nor the selection nor the scroll offset, send no
\* request and leave the session in the loop.
C16_LookupMissIsNoOp ==
    [][ (pc = "loop" /\ selected_id \notin Ids(jotforms) /\ key' \in {"e", "Up", "Down"}) =>
            /\ pc' = "loop"
            /\ UNCHANGED <<jotforms, selected_id, description_offset>>
            /\ inflight' = <<>>
            /\ sorting' = <<>> ]_vars

\* Down was pressed on a list of two or more tickets none of which is selected,
\* the pane scrolled.
C16_Witness ==
    /\ pc = "loop"
    /\ key = "Down"
    /\ Len(jotforms) >= 2
    /\ selected_id \notin Ids(jotforms)
    /\ description_offset > 0

----------------------------------------------------------------------------
\* C17, as claimed: while the request of an 'e' press is out, the pressed ticket
\* still has in the list the status it had before the press.
C17_RequestBeforeCommit ==
    pc = "await" => Selected.status = Last(streak)

\* C17: while the request of an 'e' press is out, the pressed ticket already has
\* in the list its new status, the one the request carries, and no longer the old.
C17_CommitBeforeRequest ==
    pc = "await" =>
        /\ Len(inflight) = 1
        /\ inflight[1].id = selected_id
        /\ Selected.status = inflight[1].new_status
        /\ Selected.status # Last(streak)

\* The request of an 'e' press on a Closed ticket is out.
C17_Witness ==
    /\ pc = "await"
    /\ Last(streak) = "Closed"
    /\ Selected.status = "Unplanned"

----------------------------------------------------------------------------
\* C18, as claimed: while the request of an 'e' press is out it is the only one,
\* is addressed to the selected ticket with the next status of the cycle, and
\* the list has been sorted again already.
C18_SortBeforeRequest ==
    pc = "await" =>
        /\ inflight = <<[id |-> selected_id, new_status |-> CycleNext(Last(streak))]>>
        /\ BucketsInOrder(jotforms)

\* C18: an 'e' press on the selected ticket t sends exactly one request, to t.id
\* with the status after t's in the cycle, t having that status in the list and the
\* list being in the order it had before the press; the sort and the reselection
\* come with the answer; no request is out when a key is read, and no other key
\* sends one.
C18_OneRequestPerPress ==
    [][ /\ pc = "loop" => inflight = <<>>
        /\ (pc = "loop" /\ key' = "e" /\ selected_id \in Ids(jotforms)) =>
               (/\ pc' = "await"
                /\ inflight' = <<[id |-> selected_id,
                                   new_status |-> CycleNext(Selected.status)]>>
                /\ Selected'.status = CycleNext(Selected.status)
                /\ IdOrder(jotforms') = IdOrder(jotforms))
        /\ (pc = "await" /\ pc' = "loop") =>
               (/\ inflight' = <<>>
                /\ BucketsInOrder(jotforms')
                /\ selected_id' = selected_id)
        /\ (pc = "loop" /\ key' # "e") => inflight' = <<>> ]_vars

\* The request is out and the list is not in the order of the buckets: it has
\* not been sorted yet.
C18_Witness ==
    /\ pc = "await"
    /\ Len(inflight) = 1
    /\ ~BucketsInOrder(jotforms)

----------------------------------------------------------------------------
\* C19: neither the 'e' arm up to its request nor what it does with the answer
\* (the sort, the reselection) changes the scroll offset.
C19_StatusChangeKeepsOffset ==
    [][ ((pc = "loop" /\ key' = "e") \/ (pc = "await" /\ pc' = "loop")) =>
            description_offset' = description_offset ]_vars

\* An 'e' press on a ticket, answered, the pane scrolled.
C19_Witness ==
    /\ pc = "loop"
    /\ key = "e"
    /\ acted
    /\ answer # "none"
    /\ description_offset > 0

----------------------------------------------------------------------------
\* C20: no step of the running session adds, removes or duplicates a ticket or
\* changes an id or a date, and a status changes only in the 'e' arm, that of the
\* selected ticket, which does change.
C20_OnlyTheSelectedStatusChanges ==
    [][ (pc \in {"loop", "await"} /\ pc' \in {"loop", "await"}) =>
            /\ Len(jotforms') = Len(jotforms)
            /\ Cardinality(Ids(jotforms')) = Len(jotforms')
            /\ \A i \in 1..Len(jotforms) : \E j \in 1..Len(jotforms') :
                   /\ jotforms'[j].id = jotforms[i].id
                   /\ jotforms'[j].date = jotforms[i].date
                   /\ \/ jotforms'[j].status = jotforms[i].status
                      \/ /\ pc = "loop"
                         /\ key' = "e"
                         /\ jotforms[i].id = selected_id
            /\ (pc = "loop" /\ key' = "e" /\ selected_id \in Ids(jotforms)) =>
                   Selected'.status # Selected.status ]_vars

\* An 'e' press on a ticket of a list of three, answered, after which the ticket
\* is not the first of the list.
C20_Witness ==
    /\ pc = "loop"
    /\ key = "e"
    /\ acted
    /\ answer # "none"
    /\ Len(jotforms) >= 3
    /\ Position(jotforms, selected_id) > 1

----------------------------------------------------------------------------
\* C21, as claimed: on tickets of parseable dates the closure is reflexive
\* (cmp(a, a) = Equal), antisymmetric (cmp(a, b) is the reverse of cmp(b, a)) and
\* transitive (cmp(a, b) <= Equal and cmp(b, c) <= Equal give cmp(a, c) <= Equal).
C21_ClosureIsTotalPreorder ==
    \A i, j, k \in DOMAIN cmps :
        (Parses(jotforms[i].date) /\ Parses(jotforms[j].date) /\ Parses(jotforms[k].date)) =>
            /\ cmps[i][i] = "Equal"
            /\ cmps[i][j] = Reverse(cmps[j][i])
            /\ (cmps[i][j] \in {"Less", "Equal"} /\ cmps[j][k] \in {"Less", "Equal"})
                   => cmps[i][k] \in {"Less", "Equal"}

----------------------------------------------------------------------------
\* C22, as claimed: sorting a list that came out of the sort leaves every ticket
\* at its position.
C22_SortIsIdempotent ==
    [][ (pc = "sorted" /\ pc' = "sorted") => jotforms' = jotforms ]_vars

----------------------------------------------------------------------------
\* C23: at most one update request is out at any time, one is out exactly while
\* the 'e' arm awaits, and the only step taken from there is the arrival of its
\* answer or failure: no key is handled and nothing is drawn in between.
C23_UpdateIsAwaitedInTheLoop ==
    [][ /\ Len(inflight) <= 1
        /\ (pc = "await") <=> (Len(inflight) = 1)
        /\ pc = "await" =>
               (/\ pc' \in {"loop", "panicked", "failed"}
                /\ answer' \in {"2xx", "non2xx", "send failed"}
                /\ inflight' = <<>>
                /\ pc' = "loop" => (key' = key /\ acted' = acted)) ]_vars

\* The request of the second of two 'e' presses is out, alone.
C23_Witness ==
    /\ pc = "await"
    /\ Len(streak) = 2
    /\ Len(inflight) = 1

----------------------------------------------------------------------------
\* C24, as claimed: at the first render of the rollback program the list is in
\* the order of the buckets, dates descending within them, and selected_id is the
\* id of the first ticket, empty only for the empty list.
C24_RollbackStartsLoaded ==
    (pc = "loop" /\ key = "none") =>
        /\ BucketsInOrder(jotforms)
        /\ AllParse(jotforms) => DatesDescend(jotforms)
        /\ Len(jotforms) > 0 => selected_id = jotforms[1].id
        /\ Len(jotforms) = 0 => selected_id = ""

----------------------------------------------------------------------------
\* C25, as claimed: neither step of an 'e' press, the status change with its
\* request and the sort that follows the answer, changes the order in which the
\* tickets other than the selected one stand.
C25_ResortKeepsTheOthers ==
    [][ ((pc = "loop" /\ pc' = "await") \/ (pc = "await" /\ pc' = "loop")) =>
            Others(jotforms', selected_id) = Others(jotforms, selected_id) ]_vars

----------------------------------------------------------------------------
\* C26: as long as every update request has been answered with 2xx, at every
\* render the backend has the tickets of the list, each with the status the list
\* holds (so that the two differ only after a non-2xx answer or a failed send).
C26_LocalAgreesWithRemote ==
    (pc = "loop" /\ ~refused) =>
        /\ DOMAIN remote = Ids(jotforms)
        /\ \A i \in 1..Len(jotforms) : remote[jotforms[i].id] = jotforms[i].status

\* Two 'e' presses on a ticket of a list of two, both answered with 2xx.
C26_Witness ==
    /\ pc = "loop"
    /\ ~refused
    /\ answer = "2xx"
    /\ Len(streak) = 2
    /\ Len(jotforms) = 2

====
